---- MODULE Spec2Model ----
(***************************************************************************)
(* Model of the orchestration core of rust-temporal-demos:                 *)
(*   - food-ordering-rust: order_workflow, its three activities and the    *)
(*     OrderState cart operations (add_item / remove_item);                *)
(*   - schedule-payments-rust: find_due_payments_workflow, make_payment    *)
(*     and their activities.                                               *)
(* The durable-execution runtime is modelled by what the workflow code     *)
(* asks of it: ActivityOptions with a start-to-close timeout and the       *)
(* default retry policy (an attempt whose result is lost is run again),    *)
(* timers, event history and replay of the workflow function.              *)
(***************************************************************************)
EXTENDS Integers, Sequences, FiniteSets, TLC

(***************************************************************************)
(* Bounds of the model.                                                    *)
(***************************************************************************)
\* attempts the runtime makes of one activity before the model stops retrying
MaxAttempts == 2
\* CHECKOUT signals the environment sends to one order
MaxSignals == 1
\* width in bits at which the u32 quantity arithmetic is modelled
QuantityBits == 3
\* product ids 1..MaxProductId
MaxProductId == 2
\* cart commands applied to one OrderState
MaxOps == 3
\* midnights the wall clock passes during one batch run
MaxTicks == 1
\* replays of the order workflow from the start of its history
MaxReplays == 1
\* instants of one day at which the clock can be read
InstantsPerDay == 2
\* direct invocations of the lookup activity
MaxLookups == 2
\* attempts the runtime makes of one iplocate activity
MaxIpAttempts == 3
\* batch runs executing side by side
MaxRuns == 2
\* runs of the starter and schedule programs
MaxStarts == 3
\* polls the payments worker makes
MaxPolls == 2

(***************************************************************************)
(* types.rs                                                                *)
(***************************************************************************)
OrderStatus ==
    {"DEFAULT", "PENDING", "ACCEPTED", "PREPARING", "READY", "COMPLETED", "REJECTED"}

\* u32::MAX at the modelled width
U32_MAX == 2 ^ QuantityBits - 1

ProductIds == 1 .. MaxProductId
Quantities == 0 .. U32_MAX

\* OrderProduct { product_id, quantity }
OrderProduct == [product_id : ProductIds, quantity : Quantities]

\* OrderState::new()
NewOrderState ==
    [collection |-> FALSE, delivery_address |-> "None", email |-> "",
     products |-> <<>>, status |-> "DEFAULT"]

VARIABLES
    \* ---- order_workflow and its runtime
    input,          \* the OrderState the workflow was started with
    pc,             \* the await the workflow function is suspended at
    state,          \* the workflow's local `state` (also the OrderState of the cart spec)
    commands,       \* commands the workflow function has issued, in order
    history,        \* resolutions the runtime has recorded, in order
    act,            \* the activity task the runtime holds for this workflow
    timer,          \* TRUE while a workflow timer is pending
    charges,        \* completed executions of the take_payment body
    refunds,        \* completed executions of the refund_payment body
    notified,       \* OrderState snapshots send_text_message was executed with
    signals,        \* CHECKOUT signals delivered to the instance
    request,        \* the last query or update sent to the instance, with its answer
    replays,        \* times the workflow function was run again from the start
    \* ---- OrderState cart operations
    ops,            \* cart commands applied so far
    result,         \* how the last cart call ended: "none", "unit" (returned) or "panic"
    overflowChecks, \* build profile: TRUE = overflow-checks on (debug), FALSE = release
    \* ---- find_due_payments_workflow, make_payment and their runtime
    now,            \* the wall clock (Utc::now()), as a day number
    bpc,            \* the await the batch workflow is suspended at
    window,         \* (start_time, end_time) the batch workflow computed, as instants
    lookup,         \* the find_payments_for_day activity task
    payments,       \* the lookup result the batch workflow deserialized
    children,       \* the make_payment child workflows, by position
    sent,           \* executions of the send_payment body, by child position
    joined,         \* child futures the batch workflow has finished awaiting
    lookups,        \* direct invocations of find_payments_for_day: window and result
    \* ---- iplocate-rust: get_address_from_ip and its runtime
    ipInput,        \* the WorkflowInput the workflow was started with
    ipPc,           \* the await the workflow function is suspended at
    ipCommands,     \* commands the workflow function has issued, in order
    ipHistory,      \* resolutions the runtime has delivered to the workflow, in order
    ipAct,          \* the activity task the runtime holds for this workflow
    ipLog,          \* how each attempt of the running activity ended, in order
    ipOutput,       \* how the workflow execution ended
    \* ---- OrderStatus text conversions
    text,           \* a status text, as a sequence of characters
    parsed,         \* the result of the last from_str
    \* ---- batch runs side by side, and the starter and schedule programs
    runs,           \* the batch runs executing in the namespace, from their child loop on
    execs,          \* the start requests the server got from the programs, and their fate
    polls           \* polls of the task queue the payments worker has made

orderVars == <<input, pc, commands, history, act, timer, charges, refunds, notified, signals,
              request, replays>>
cartVars == <<ops, result, overflowChecks>>
batchVars == <<now, bpc, window, lookup, payments, children, sent, joined>>
ipVars == <<ipInput, ipPc, ipCommands, ipHistory, ipAct, ipLog, ipOutput>>
statusVars == <<text, parsed>>
clientVars == <<runs, execs, polls>>
\* what the order, cart and batch actions have no part in
farVars == <<lookups, ipVars, statusVars, clientVars>>
vars == <<input, pc, state, commands, history, act, timer, charges, refunds, notified,
          signals, request, replays, ops, result, overflowChecks,
          now, bpc, window, lookup, payments, children, sent, joined, lookups,
          ipInput, ipPc, ipCommands, ipHistory, ipAct, ipLog, ipOutput, text, parsed,
          runs, execs, polls>>

(***************************************************************************)
(* workflows.rs: order_workflow, as the function of (input, resolutions)   *)
(* that the runtime runs and replays.                                      *)
(***************************************************************************)
NoTask == [type |-> "none", input |-> <<>>, attempt |-> 0, phase |-> "none"]

\* ctx.activity(ActivityOptions { activity_type, input, .. }); the input is the
\* list of values serialized into the payload: none for `()`, one for a state
ActivityCmd(type, arg) == [kind |-> "activity", type |-> type, input |-> arg]
\* ctx.timer(TimerOptions { duration: 10 s })
TimerCmd == [kind |-> "timer", type |-> "timer", input |-> "10s"]

\* order_workflow without `state.status = OrderStatus::Default`: the status of
\* the input is kept
order_workflow_start_keep_status(in) ==
    [pc |-> "await_take_payment", state |-> in,
     commands |-> <<ActivityCmd("take_payment", <<>>)>>]

\* lines 25-35: force DEFAULT, schedule take_payment, await it
order_workflow_start(in) ==
    LET s == [in EXCEPT !.status = "DEFAULT"]
    IN [pc |-> "await_take_payment", state |-> s,
        commands |-> <<ActivityCmd("take_payment", <<>>)>>]

\* order_workflow_resume with the PENDING notification built before the status
\* is set (the snapshot sent is stale)
order_workflow_resume_stale(w, ev) ==
    CASE w.pc = "await_take_payment" ->
            IF ev = "ActivityCompleted"
            THEN LET s == [w.state EXCEPT !.status = "PENDING"]
                 IN [pc |-> "await_notify_pending", state |-> s,
                     commands |-> Append(w.commands,
                                         ActivityCmd("send_text_message", <<w.state>>))]
            ELSE [w EXCEPT !.pc = "panicked"]
      [] w.pc = "await_notify_pending" ->
            IF ev = "ActivityCompleted"
            THEN [w EXCEPT !.pc = "await_timer", !.commands = Append(@, TimerCmd)]
            ELSE [w EXCEPT !.pc = "panicked"]
      [] w.pc = "await_timer" ->
            LET s == [w.state EXCEPT !.status = "COMPLETED"]
            IN [pc |-> "await_notify_completed", state |-> s,
                commands |-> Append(w.commands, ActivityCmd("send_text_message", <<s>>))]
      [] w.pc = "await_notify_completed" ->
            IF ev = "ActivityCompleted"
            THEN [w EXCEPT !.pc = "completed"]
            ELSE [w EXCEPT !.pc = "panicked"]
      [] OTHER -> w

\* lines 35-73: the code between one await and the next, given the resolution `ev`
order_workflow_resume(w, ev) ==
    CASE w.pc = "await_take_payment" ->
            IF ev = "ActivityCompleted"
            THEN LET s == [w.state EXCEPT !.status = "PENDING"]
                 IN [pc |-> "await_notify_pending", state |-> s,
                     commands |-> Append(w.commands, ActivityCmd("send_text_message", <<s>>))]
            ELSE [w EXCEPT !.pc = "panicked"]       \* unwrap_ok_payload panics
      [] w.pc = "await_notify_pending" ->
            IF ev = "ActivityCompleted"
            THEN [w EXCEPT !.pc = "await_timer", !.commands = Append(@, TimerCmd)]
            ELSE [w EXCEPT !.pc = "panicked"]
      [] w.pc = "await_timer" ->
            LET s == [w.state EXCEPT !.status = "COMPLETED"]
            IN [pc |-> "await_notify_completed", state |-> s,
                commands |-> Append(w.commands, ActivityCmd("send_text_message", <<s>>))]
      [] w.pc = "await_notify_completed" ->
            IF ev = "ActivityCompleted"
            THEN [w EXCEPT !.pc = "completed"]
            ELSE [w EXCEPT !.pc = "panicked"]
      [] OTHER -> w

\* the runtime rebuilds the workflow's memory by running it against the history
RECURSIVE Replay(_, _)
Replay(in, h) ==
    IF h = <<>> THEN order_workflow_start(in)
    ELSE order_workflow_resume(Replay(in, SubSeq(h, 1, Len(h) - 1)), h[Len(h)])

(***************************************************************************)
(* Order workflow: one action per step of the workflow function and of the *)
(* runtime serving it.                                                     *)
(***************************************************************************)
Carts == {<<>>, <<[product_id |-> 1, quantity |-> 2]>>}


\* no query or update has been sent
NoRequest == [kind |-> "none", arg |-> "none", reply |-> [error |-> "none"]]

\* no find_payments_for_day task
NoLookup == [attempt |-> 0, phase |-> "none", input |-> <<0, 0>>, data |-> <<>>, result |-> <<>>]

\* no batch run from a client, no start request, no poll
ClientIdle ==
    /\ runs = <<>>
    /\ execs = <<>>
    /\ polls = 0

\* no lookup invoked directly, no iplocate workflow, no status text
FarIdle ==
    /\ ClientIdle
    /\ lookups = <<>>
    /\ ipInput = [name |-> "", seconds |-> 0]
    /\ ipPc = "not_started"
    /\ ipCommands = <<>>
    /\ ipHistory = <<>>
    /\ ipAct = [type |-> "none", input |-> "none", attempt |-> 0, phase |-> "none"]
    /\ ipLog = <<>>
    /\ ipOutput = [kind |-> "none"]
    /\ text = <<>>
    /\ parsed = [kind |-> "none"]

\* the batch side at rest
BatchIdle ==
    /\ now = 1
    /\ bpc = "not_started"
    /\ window = <<0, 0>>
    /\ lookup = NoLookup
    /\ payments = <<>>
    /\ children = <<>>
    /\ sent = <<>>
    /\ joined = 0

InitOrder ==
    /\ input \in {[NewOrderState EXCEPT !.status = st, !.products = c] :
                     st \in OrderStatus, c \in Carts}
    /\ pc = "not_started"
    /\ state = input
    /\ commands = <<>>
    /\ history = <<>>
    /\ act = NoTask
    /\ timer = FALSE
    /\ charges = 0
    /\ refunds = 0
    /\ notified = <<>>
    /\ signals = 0
    /\ request = NoRequest
    /\ replays = 0
    /\ FarIdle
    /\ ops = <<>>
    /\ result = "none"
    /\ overflowChecks = FALSE
    /\ BatchIdle

\* the runtime's task for the command the workflow issued last
TaskFor(cmd) ==
    IF cmd.kind = "activity"
    THEN [type |-> cmd.type, input |-> cmd.input, attempt |-> 1, phase |-> "scheduled"]
    ELSE NoTask

\* install the result `w` of a workflow step whose last command is new
Advance(w, issued) ==
    /\ pc' = w.pc
    /\ state' = w.state
    /\ commands' = w.commands
    /\ act' = IF issued THEN TaskFor(w.commands[Len(w.commands)]) ELSE NoTask
    /\ timer' = (issued /\ w.commands[Len(w.commands)].kind = "timer")

\* first workflow task: order_workflow runs up to its first await
StartWorkflow ==
    /\ pc = "not_started"
    /\ Advance(order_workflow_start(input), TRUE)
    /\ UNCHANGED <<input, history, charges, refunds, notified, signals, request, replays>>
    /\ UNCHANGED cartVars
    /\ UNCHANGED batchVars
    /\ UNCHANGED farVars

\* activities.rs: a worker runs the body of the scheduled activity to its end
RunActivity ==
    /\ act.phase = "scheduled"
    /\ act' = [act EXCEPT !.phase = "ran"]
    /\ charges' = IF act.type = "take_payment" THEN charges + 1 ELSE charges
    /\ refunds' = IF act.type = "refund_payment" THEN refunds + 1 ELSE refunds
    /\ notified' = IF act.type = "send_text_message"
                   THEN Append(notified, act.input[1]) ELSE notified
    /\ UNCHANGED <<input, pc, state, commands, history, timer, signals, request, replays>>
    /\ UNCHANGED cartVars
    /\ UNCHANGED batchVars
    /\ UNCHANGED farVars

\* start_to_close_timeout with the default retry policy: the attempt's result
\* did not reach the runtime in time (worker lost, result lost), so the
\* activity is handed out again
RetryActivity ==
    /\ act.phase \in {"scheduled", "ran"}
    /\ act.attempt < MaxAttempts
    /\ act' = [act EXCEPT !.attempt = @ + 1, !.phase = "scheduled"]
    /\ UNCHANGED <<input, pc, state, commands, history, timer, charges, refunds,
                   notified, signals, request, replays>>
    /\ UNCHANGED cartVars
    /\ UNCHANGED batchVars
    /\ UNCHANGED farVars

Awaiting == {"await_take_payment", "await_notify_pending", "await_notify_completed"}

Resolve(ev) ==
    LET w == order_workflow_resume([pc |-> pc, state |-> state, commands |-> commands], ev)
    IN /\ history' = Append(history, ev)
       /\ Advance(w, Len(w.commands) > Len(commands))
       /\ UNCHANGED <<input, charges, refunds, notified, signals, request, replays>>
       /\ UNCHANGED cartVars
       /\ UNCHANGED batchVars
       /\ UNCHANGED farVars
    /\ UNCHANGED batchVars
    /\ UNCHANGED farVars

\* the activity's Ok result is recorded and the workflow resumes after `.await`
ActivityCompleted ==
    /\ pc \in Awaiting
    /\ act.phase = "ran"
    /\ Resolve("ActivityCompleted")

\* the activity resolves as failed (non-retryable error, or retries exhausted)
ActivityFailed ==
    /\ pc \in Awaiting
    /\ act.phase \in {"scheduled", "ran"}
    /\ Resolve("ActivityFailed")

\* the 10 s timer fires
TimerFired ==
    /\ pc = "await_timer"
    /\ timer
    /\ Resolve("TimerFired")

\* the worker loses the workflow's memory (crash, cache eviction)
WorkerCrash ==
    /\ pc \in Awaiting \cup {"await_timer"}
    /\ pc' = "evicted"
    /\ UNCHANGED <<input, state, commands, history, act, timer, charges, refunds,
                   notified, signals, request, replays>>
    /\ UNCHANGED cartVars
    /\ UNCHANGED batchVars
    /\ UNCHANGED farVars

\* ReplayWorkflow run against a newly constructed OrderState instead of the
\* recorded input
ReplayWorkflow_new_state ==
    /\ pc \in {"evicted", "panicked"}
    /\ replays < MaxReplays
    /\ replays' = replays + 1
    /\ LET w == Replay(NewOrderState, history)
       IN /\ pc' = w.pc
          /\ state' = w.state
          /\ commands' = w.commands
    /\ UNCHANGED <<input, history, act, timer, charges, refunds, notified, signals, request>>
    /\ UNCHANGED cartVars
    /\ UNCHANGED batchVars
    /\ UNCHANGED farVars

\* the workflow function is run again from the start against the history; a
\* panicked workflow task is retried the same way
ReplayWorkflow ==
    /\ pc \in {"evicted", "panicked"}
    /\ replays < MaxReplays
    /\ replays' = replays + 1
    /\ LET w == Replay(input, history)
       IN /\ pc' = w.pc
          /\ state' = w.state
          /\ commands' = w.commands
    /\ UNCHANGED <<input, history, act, timer, charges, refunds, notified, signals, request>>
    /\ UNCHANGED cartVars
    /\ UNCHANGED batchVars
    /\ UNCHANGED farVars

\* constants.rs Signals::CHECKOUT: the signal is delivered to the instance;
\* order_workflow reads no signal channel
SignalCheckout ==
    /\ pc # "completed"
    /\ signals < MaxSignals
    /\ signals' = signals + 1
    /\ UNCHANGED <<input, pc, state, commands, history, act, timer, charges, refunds,
                   notified, request, replays>>
    /\ UNCHANGED cartVars
    /\ UNCHANGED batchVars
    /\ UNCHANGED farVars

\* what a client gets for a query or update name the workflow registered no
\* handler for: a failure, never a value computed by the workflow
Unhandled == [error |-> "HandlerNotFound"]

\* constants.rs Updates::UPDATE_STATUS: the update is delivered to the running
\* instance; order_workflow registers no update handler, so no line of the
\* workflow runs for it
UpdateStatus ==
    \E new_status \in OrderStatus :
        /\ pc # "not_started"
        /\ request' = [kind |-> "UPDATE_STATUS", arg |-> new_status, reply |-> Unhandled]
        /\ UNCHANGED <<input, pc, state, commands, history, act, timer, charges, refunds,
                       notified, signals, replays>>
        /\ UNCHANGED cartVars
        /\ UNCHANGED batchVars
        /\ UNCHANGED farVars

\* constants.rs Queries::GET_STATUS: the query is delivered to the running
\* instance; order_workflow registers no query handler
GetStatus ==
    /\ pc # "not_started"
    /\ request' = [kind |-> "GET_STATUS", arg |-> "none", reply |-> Unhandled]
    /\ UNCHANGED <<input, pc, state, commands, history, act, timer, charges, refunds,
                   notified, signals, replays>>
    /\ UNCHANGED cartVars
    /\ UNCHANGED batchVars
    /\ UNCHANGED farVars

Next ==
    \/ StartWorkflow
    \/ RunActivity
    \/ RetryActivity
    \/ ActivityCompleted
    \/ ActivityFailed
    \/ TimerFired
    \/ WorkerCrash
    \/ ReplayWorkflow
    \/ SignalCheckout
    \/ UpdateStatus
    \/ GetStatus

Spec == InitOrder /\ [][Next]_vars

(***************************************************************************)
(* types.rs: OrderState::add_item / OrderState::remove_item                *)
(***************************************************************************)
\* index of the first entry for product `id`, 0 when there is none
FirstIndex(products, id) ==
    IF \E i \in 1 .. Len(products) : products[i].product_id = id
    THEN CHOOSE i \in 1 .. Len(products) :
            /\ products[i].product_id = id
            /\ \A j \in 1 .. i - 1 : products[j].product_id # id
    ELSE 0

\* add_item without the search for an existing entry: every item is pushed
add_item_always_push(products, item, checks) ==
    [products |-> Append(products, item), result |-> "unit"]

\* add_item with a new product inserted first instead of pushed last
add_item_push_front(products, item, checks) ==
    LET i == FirstIndex(products, item.product_id)
    IN IF i = 0
       THEN [products |-> <<item>> \o products, result |-> "unit"]
       ELSE LET sum == products[i].quantity + item.quantity
            IN IF sum > U32_MAX /\ checks
               THEN [products |-> products, result |-> "panic"]
               ELSE [products |-> [products EXCEPT ![i].quantity = sum % (U32_MAX + 1)],
                     result |-> "unit"]

\* `existing_item.quantity += item.quantity` on u32: with overflow checks the
\* addition panics, without them it wraps
add_item(products, item, checks) ==
    LET i == FirstIndex(products, item.product_id)
    IN IF i = 0
       THEN [products |-> Append(products, item), result |-> "unit"]
       ELSE LET sum == products[i].quantity + item.quantity
            IN IF sum > U32_MAX /\ checks
               THEN [products |-> products, result |-> "panic"]
               ELSE [products |-> [products EXCEPT ![i].quantity = sum % (U32_MAX + 1)],
                     result |-> "unit"]

\* u32::saturating_sub
saturating_sub(a, b) == IF b >= a THEN 0 ELSE a - b

\* remove_item with the entry kept when the decrement leaves exactly 0
remove_item_keep_zero(products, item) ==
    LET dec(e) == IF e.product_id = item.product_id
                  THEN [e EXCEPT !.quantity = saturating_sub(@, item.quantity)]
                  ELSE e
        keep(e) == e.product_id # item.product_id \/ e.quantity >= 0
    IN SelectSeq([i \in 1 .. Len(products) |-> dec(products[i])], keep)

\* retain_mut: every matching entry is decremented and kept only if it stays > 0
remove_item(products, item) ==
    LET dec(e) == IF e.product_id = item.product_id
                  THEN [e EXCEPT !.quantity = saturating_sub(@, item.quantity)]
                  ELSE e
        keep(e) == e.product_id # item.product_id \/ e.quantity > 0
    IN SelectSeq([i \in 1 .. Len(products) |-> dec(products[i])], keep)

\* quantities the cart commands are tried with
CmdQuantities == {0, 1, 2, U32_MAX}
CmdItems == [product_id : ProductIds, quantity : CmdQuantities]

\* statuses of the orders the cart commands are applied to (the fields of
\* OrderState are public and deserialized: any status can be met)
CartStatuses == {"DEFAULT", "PENDING", "COMPLETED"}

InitCart ==
    /\ state \in {[NewOrderState EXCEPT !.status = s] : s \in CartStatuses}
    /\ ops = <<>>
    /\ result = "none"
    /\ overflowChecks \in BOOLEAN
    /\ input = NewOrderState
    /\ pc = "not_started"
    /\ commands = <<>>
    /\ history = <<>>
    /\ act = NoTask
    /\ timer = FALSE
    /\ charges = 0
    /\ refunds = 0
    /\ notified = <<>>
    /\ signals = 0
    /\ request = NoRequest
    /\ replays = 0
    /\ FarIdle
    /\ BatchIdle

AddItem ==
    \E item \in CmdItems :
        /\ result # "panic"
        /\ Len(ops) < MaxOps
        /\ LET r == add_item(state.products, item, overflowChecks)
           IN /\ state' = [state EXCEPT !.products = r.products]
              /\ result' = r.result
        /\ ops' = Append(ops, [kind |-> "ADD_ITEM", item |-> item])
        /\ UNCHANGED overflowChecks
        /\ UNCHANGED orderVars
        /\ UNCHANGED batchVars
        /\ UNCHANGED farVars

RemoveItem ==
    \E item \in CmdItems :
        /\ result # "panic"
        /\ Len(ops) < MaxOps
        /\ state' = [state EXCEPT !.products = remove_item(@, item)]
        /\ result' = "unit"
        /\ ops' = Append(ops, [kind |-> "REMOVE_ITEM", item |-> item])
        /\ UNCHANGED overflowChecks
        /\ UNCHANGED orderVars
        /\ UNCHANGED batchVars
        /\ UNCHANGED farVars

NextCart ==
    \/ AddItem
    \/ RemoveItem

CartSpec == InitCart /\ [][NextCart]_vars

(***************************************************************************)
(* Properties of the order workflow (checked under Spec).                  *)
(***************************************************************************)
Started == pc # "not_started"
TakePaymentSucceeded == Len(history) >= 1 /\ history[1] = "ActivityCompleted"
TakePaymentFailed == Len(history) >= 1 /\ history[1] = "ActivityFailed"
FulfilmentWaitEnded == \E i \in 1 .. Len(history) : history[i] = "TimerFired"

IsPrefix(a, b) == Len(a) <= Len(b) /\ SubSeq(b, 1, Len(a)) = a

\* the steps the runtime and the workers owe a started order workflow: the
\* first workflow task, the execution of a scheduled activity, the delivery of
\* its result (completed or failed), the timer, and the retry of a workflow
\* task that was lost or has panicked
OrderProgress ==
    \/ StartWorkflow
    \/ RunActivity
    \/ ActivityCompleted
    \/ ActivityFailed
    \/ TimerFired
    \/ ReplayWorkflow

\* what an OrderProgress step changes: each one moves the workflow, the
\* activity task, the history or the replay count
orderProgressVars == <<pc, history, replays, act.phase, act.attempt>>

FairOrderSpec == InitOrder /\ [][Next]_vars /\ WF_orderProgressVars(OrderProgress)

\* C1: the take-payment side effect is applied at most once for the order,
\* also when the runtime hands the activity out again or replays the workflow.
C1_ChargedAtMostOnce == charges <= 1

\* C3: when take_payment fails terminally the order is REJECTED, refund_payment
\* has been attempted exactly once, and the order is neither PENDING nor
\* COMPLETED.
C3_FailedPaymentRejectsAndRefunds ==
    TakePaymentFailed =>
        /\ state.status = "REJECTED"
        /\ refunds = 1
        /\ state.status \notin {"PENDING", "COMPLETED"}

\* the commands of a successful checkout, in order, with their inputs
CheckoutCommands(in) ==
    LET d == [in EXCEPT !.status = "DEFAULT"]
    IN << ActivityCmd("take_payment", <<>>),
          ActivityCmd("send_text_message", <<[d EXCEPT !.status = "PENDING"]>>),
          TimerCmd,
          ActivityCmd("send_text_message", <<[d EXCEPT !.status = "COMPLETED"]>>) >>

\* C4: a checkout issues take_payment, then (status PENDING) the notification
\* with the PENDING snapshot, then the wait, then (status COMPLETED) the
\* notification with the COMPLETED snapshot, and nothing else; status is not
\* PENDING before take_payment succeeded nor COMPLETED before the wait ended;
\* every notification delivered carries the status of its step.
C4_CheckoutSequence ==
    /\ IsPrefix(commands, CheckoutCommands(input))
    /\ (Started /\ state.status = "PENDING") => TakePaymentSucceeded
    /\ (Started /\ state.status = "COMPLETED") => (TakePaymentSucceeded /\ FulfilmentWaitEnded)
    /\ \A i \in 1 .. Len(notified) :
          /\ TakePaymentSucceeded
          /\ notified[i] = [input EXCEPT !.status = notified[i].status]
          /\ notified[i].status \in {"PENDING", "COMPLETED"}
          /\ notified[i].status = "COMPLETED" => FulfilmentWaitEnded
          /\ \A j \in 1 .. i : notified[i].status = "PENDING" => notified[j].status = "PENDING"
    /\ pc = "completed" =>
          /\ commands = CheckoutCommands(input)
          /\ history = <<"ActivityCompleted", "ActivityCompleted", "TimerFired",
                         "ActivityCompleted">>
          /\ state.status = "COMPLETED"
          /\ \E i, j \in 1 .. Len(notified) :
                i < j /\ notified[i].status = "PENDING" /\ notified[j].status = "COMPLETED"

\* a checkout that ran to its end after a retried notification
C4_Witness == pc = "completed" /\ Len(notified) >= 3 /\ charges = 1

\* the transition table of the order status
StatusEdges ==
    { <<"DEFAULT", "PENDING">>, <<"PENDING", "ACCEPTED">>, <<"ACCEPTED", "PREPARING">>,
      <<"PREPARING", "READY">>, <<"READY", "COMPLETED">>,
      <<"PENDING", "REJECTED">>, <<"ACCEPTED", "REJECTED">>, <<"PREPARING", "REJECTED">> }

\* C5: every change of status made by the running order follows an edge of the
\* table (none goes from PENDING directly to COMPLETED).
C5_StatusFollowsTable ==
    [][(Started /\ state'.status # state.status)
          => <<state.status, state'.status>> \in StatusEdges]_vars

\* C6: until a CHECKOUT signal has been delivered the order issues no
\* take_payment and stays in DEFAULT.
C6_NoPaymentBeforeCheckout ==
    signals = 0 =>
        /\ \A i \in 1 .. Len(commands) : commands[i].type # "take_payment"
        /\ charges = 0
        /\ Started => state.status = "DEFAULT"

\* the edges UPDATE_STATUS may take
UpdateEdges ==
    { <<"PENDING", "ACCEPTED">>, <<"ACCEPTED", "PREPARING">>, <<"PREPARING", "READY">>,
      <<"READY", "COMPLETED">>,
      <<"PENDING", "REJECTED">>, <<"ACCEPTED", "REJECTED">>, <<"PREPARING", "REJECTED">> }

UpdateStatusAnswered == request' # request /\ request'.kind = "UPDATE_STATUS"

\* C14: UPDATE_STATUS is accepted only along PENDING -> ACCEPTED -> PREPARING
\* -> READY -> COMPLETED or from PENDING / ACCEPTED / PREPARING to REJECTED;
\* any other request fails with InvalidStateTransition and leaves the order
\* state unchanged.
C14_UpdateStatusEdges ==
    [][UpdateStatusAnswered
          => /\ request'.reply = [error |-> "none"]
                    => (/\ <<state.status, request'.arg>> \in UpdateEdges
                        /\ state' = [state EXCEPT !.status = request'.arg])
             /\ <<state.status, request'.arg>> \notin UpdateEdges
                    => (/\ request'.reply = [error |-> "InvalidStateTransition"]
                        /\ state' = state)]_vars

GetStatusAnswered == request' # request /\ request'.kind = "GET_STATUS"

\* C15: the GET_STATUS query returns the current order state, changes no field
\* of it and schedules no activity or timer.
C15_GetStatusReturnsState ==
    [][GetStatusAnswered
          => /\ DOMAIN request'.reply = DOMAIN state
             /\ request'.reply = state
             /\ state' = state
             /\ commands' = commands
             /\ act' = act
             /\ timer' = timer]_vars

EntriesOf(products, id) == {i \in 1 .. Len(products) : products[i].product_id = id}
QuantityOf(products, id) == products[FirstIndex(products, id)].quantity
Min(a, b) == IF a <= b THEN a ELSE b

\* C7: after any sequence of add_item / remove_item from the empty cart, no
\* entry has quantity 0 or less.
C7_NoZeroQuantity ==
    \A i \in 1 .. Len(state.products) : state.products[i].quantity > 0

\* C8: ADD_ITEM with quantity 0 is rejected with InvalidArgument and leaves
\* the order state as it was.
C8_AddZeroRejected ==
    [][(ops' # ops /\ ops'[Len(ops')].kind = "ADD_ITEM"
                   /\ ops'[Len(ops')].item.quantity = 0)
          => (state' = state /\ result' = "InvalidArgument")]_vars

\* total quantity the ADD_ITEM commands of `log` carry for product `id`
RECURSIVE Added(_, _)
Added(log, id) ==
    IF log = <<>> THEN 0
    ELSE Added(SubSeq(log, 1, Len(log) - 1), id)
         + (IF log[Len(log)].item.product_id = id THEN log[Len(log)].item.quantity ELSE 0)

OnlyAdds == ops # <<>> /\ \A i \in 1 .. Len(ops) : ops[i].kind = "ADD_ITEM"
AddedProducts == {ops[i].item.product_id : i \in 1 .. Len(ops)}

\* C9: after adds only, each added product has exactly one entry, holding the
\* sum of the quantities added for it (the sum as ADD_ITEM defines it, capped
\* at the u32 maximum), whatever the order of the adds.
C9_AddsSum ==
    OnlyAdds =>
        /\ result # "panic"
        /\ \A id \in AddedProducts :
              /\ Cardinality(EntriesOf(state.products, id)) = 1
              /\ QuantityOf(state.products, id) = Min(Added(ops, id), U32_MAX)

\* C10: an add to a product already in the cart whose sum exceeds the u32
\* maximum stores the maximum; it neither wraps nor aborts.
C10_AddSaturates ==
    [][(/\ ops' # ops
        /\ ops'[Len(ops')].kind = "ADD_ITEM"
        /\ EntriesOf(state.products, ops'[Len(ops')].item.product_id) # {}
        /\ QuantityOf(state.products, ops'[Len(ops')].item.product_id)
              + ops'[Len(ops')].item.quantity > U32_MAX)
          => (/\ result' = "unit"
              /\ QuantityOf(state'.products, ops'[Len(ops')].item.product_id) = U32_MAX)]_vars

\* the cart after the commands of `log`, applied in order to `products`
RECURSIVE RunCart(_, _)
RunCart(products, log) ==
    IF log = <<>> THEN products
    ELSE LET before == RunCart(products, SubSeq(log, 1, Len(log) - 1))
             op == log[Len(log)]
         IN IF op.kind = "ADD_ITEM"
            THEN add_item(before, op.item, TRUE).products
            ELSE remove_item(before, op.item)

Cmd(kind, id, q) == [kind |-> kind, item |-> [product_id |-> id, quantity |-> q]]
Entry(id, q) == [product_id |-> id, quantity |-> q]

\* the scenario of tests/integration_tests.rs and of the description of
\* REMOVE_ITEM: three adds, a partial removal, a removal of more than is held
ScenarioAdds == <<Cmd("ADD_ITEM", 1, 2), Cmd("ADD_ITEM", 2, 1), Cmd("ADD_ITEM", 1, 1)>>
ScenarioHolds ==
    /\ RunCart(<<>>, ScenarioAdds) = <<Entry(1, 3), Entry(2, 1)>>
    /\ RunCart(<<>>, Append(ScenarioAdds, Cmd("REMOVE_ITEM", 1, 1)))
          = <<Entry(1, 2), Entry(2, 1)>>
    /\ RunCart(<<>>, ScenarioAdds \o <<Cmd("REMOVE_ITEM", 1, 1), Cmd("REMOVE_ITEM", 1, 5)>>)
          = <<Entry(2, 1)>>

\* C11: REMOVE_ITEM of q units of product p leaves c - q when q is less than
\* the c units held and removes the entry when q >= c; when p is not in the
\* cart it leaves the cart as it was; it reports no error.  From the empty cart
\* ADD(1,2) ADD(2,1) ADD(1,1) give {1:3, 2:1}, then REMOVE(1,1) gives
\* {1:2, 2:1} and REMOVE(1,5) gives {2:1}.
C11_RemoveItem ==
    [][(ops' # ops /\ ops'[Len(ops')].kind = "REMOVE_ITEM")
          => LET p == ops'[Len(ops')].item.product_id
                 q == ops'[Len(ops')].item.quantity
             IN /\ ScenarioHolds
                /\ result' = "unit"
                /\ IF EntriesOf(state.products, p) = {}
                   THEN state' = state
                   ELSE LET c == QuantityOf(state.products, p)
                        IN IF q < c
                           THEN /\ Cardinality(EntriesOf(state'.products, p)) = 1
                                /\ QuantityOf(state'.products, p) = c - q
                           ELSE EntriesOf(state'.products, p) = {}]_vars

\* a removal of more than is held has dropped one product and left the other
C11_Witness ==
    /\ Len(ops) = MaxOps
    /\ ops[Len(ops)].kind = "REMOVE_ITEM"
    /\ ops[Len(ops)].item.product_id = 1
    /\ ops[Len(ops) - 1] = Cmd("ADD_ITEM", 1, 2)
    /\ ops[Len(ops)].item.quantity > 2
    /\ state.products = <<Entry(2, 1)>>

\* C12: ADD_ITEM and REMOVE_ITEM change the cart only while the status of the
\* order is DEFAULT; in any other status they leave the cart unchanged.
C12_CartFrozenOutsideDefault ==
    [][(ops' # ops /\ state.status # "DEFAULT") => state'.products = state.products]_vars

TerminalStatuses == {"COMPLETED", "REJECTED"}

\* C13: once the status is COMPLETED or REJECTED, no later command changes any
\* field of the order state.
C13_TerminalIsFrozen ==
    [][state.status \in TerminalStatuses => state' = state]_vars

(***************************************************************************)
(* schedule-payments-rust.  Days are numbered from day 0 = Monday          *)
(* 29 December 2025, so that the days around a start day cross a month     *)
(* boundary.                                                               *)
(***************************************************************************)
\* chrono Datelike::weekday().num_days_from_monday() + 1
Weekday(d) == (d % 7) + 1
\* chrono Datelike::day()
DayOfMonth(d) == IF d <= 2 THEN 29 + d ELSE d - 2

PaymentData(schedule, schedule_time, amount, k, call) ==
    [schedule |-> schedule, schedule_time |-> schedule_time, amount_in_pence |-> amount,
     sender_id |-> <<"uuid", call, 2 * k - 1>>, recipient_id |-> <<"uuid", call, 2 * k>>]

\* data.rs generate_data(), called with the clock at day `today`; `call`
\* distinguishes the fresh Uuid::new_v4() values of one call from another's
generate_data(today, call) ==
    LET tomorrow == today + 1
        yesterday == today - 1
    IN << PaymentData("Daily", 0, 10000, 1, call),
          PaymentData("Weekly", Weekday(yesterday), 10100, 2, call),
          PaymentData("Weekly", Weekday(today), 10200, 3, call),
          PaymentData("Weekly", Weekday(tomorrow), 10300, 4, call),
          PaymentData("Monthly", DayOfMonth(yesterday), 10400, 5, call),
          PaymentData("Monthly", DayOfMonth(today), 10000, 6, call),
          PaymentData("Monthly", DayOfMonth(tomorrow), 10000, 7, call) >>

\* find_payments_for_day with the weekday counted from Monday = 0
find_payments_for_day_monday0(data, day) ==
    LET include(item) ==
            CASE item.schedule = "Weekly" -> Weekday(day) - 1 = item.schedule_time
              [] item.schedule = "Monthly" -> DayOfMonth(day) = item.schedule_time
              [] OTHER -> TRUE
    IN SelectSeq(data, include)

\* activities.rs find_payments_for_day: the filter loop, with `day` the
\* activity's own Utc::now()
find_payments_for_day(data, day) ==
    LET include(item) ==
            CASE item.schedule = "Weekly" -> Weekday(day) = item.schedule_time
              [] item.schedule = "Monthly" -> DayOfMonth(day) = item.schedule_time
              [] OTHER -> TRUE
    IN SelectSeq(data, include)

\* worker.rs: the closure registered as "make_payment" builds this payment
dummy_payment ==
    [schedule |-> "Daily", schedule_time |-> 1, amount_in_pence |-> 1000,
     sender_id |-> <<"sender">>, recipient_id |-> <<"recipient">>]

\* start_children with the same workflow id given to every child
start_children_same_id(ps) ==
    [i \in 1 .. Len(ps) |->
        [workflow_id |-> <<"payment_", 0>>, input |-> ps[i], phase |-> "requested",
         attempt |-> 0, payment |-> "none"]]

\* workflows.rs lines 58-72: one child_workflow start per payment
start_children(ps) ==
    [i \in 1 .. Len(ps) |->
        [workflow_id |-> <<"payment_", i - 1>>, input |-> ps[i], phase |-> "requested",
         attempt |-> 0, payment |-> "none"]]

\* days a batch run starts on: Wednesday 31 December (tomorrow is in the next
\* month) and Thursday 1 January (yesterday is in the previous month)
StartDays == {2, 3}
LastStart == CHOOSE d \in StartDays : \A e \in StartDays : e <= d

InitBatch ==
    /\ now \in StartDays
    /\ bpc = "not_started"
    /\ window = <<0, 0>>
    /\ lookup = NoLookup
    /\ payments = <<>>
    /\ children = <<>>
    /\ sent = <<>>
    /\ joined = 0
    /\ input = NewOrderState
    /\ pc = "not_started"
    /\ state = NewOrderState
    /\ commands = <<>>
    /\ history = <<>>
    /\ act = NoTask
    /\ timer = FALSE
    /\ charges = 0
    /\ refunds = 0
    /\ notified = <<>>
    /\ signals = 0
    /\ request = NoRequest
    /\ replays = 0
    /\ FarIdle
    /\ ops = <<>>
    /\ result = "none"
    /\ overflowChecks = FALSE

restOfBatch == <<input, pc, state, commands, history, act, timer, charges, refunds,
                 notified, signals, request, replays, ops, result, overflowChecks,
                 lookups, ipVars, statusVars, clientVars>>

\* the wall clock passes midnight
Tick ==
    /\ now < LastStart + MaxTicks
    /\ now' = now + 1
    /\ UNCHANGED <<bpc, window, lookup, payments, children, sent, joined>>
    /\ UNCHANGED restOfBatch

\* the instants of day `d`
InstantsOf(d) == {d * InstantsPerDay + h : h \in 0 .. InstantsPerDay - 1}

\* now.date_naive().and_hms_opt(0, 0, 0).unwrap().and_utc()
midnight(t) == t - (t % InstantsPerDay)

\* day_window without the truncation to midnight
day_window_untruncated(t) == <<t, t + InstantsPerDay>>

\* workflows.rs lines 26-28: start_time and end_time from the instant `t`
day_window(t) == <<midnight(t), midnight(t) + InstantsPerDay>>

\* workflows.rs lines 26-36: the window from Utc::now(), then the first timer
BatchStart ==
    /\ bpc = "not_started"
    /\ \E t \in InstantsOf(now) : window' = day_window(t)
    /\ bpc' = "await_timer1"
    /\ UNCHANGED <<now, lookup, payments, children, sent, joined>>
    /\ UNCHANGED restOfBatch

\* lines 38-46: the first timer fired; schedule find_payments_for_day
BatchTimer1Fired ==
    /\ bpc = "await_timer1"
    /\ bpc' = "await_lookup"
    /\ lookup' = [attempt |-> 1, phase |-> "scheduled", input |-> window,
                  data |-> <<>>, result |-> <<>>]
    /\ UNCHANGED <<now, window, payments, children, sent, joined>>
    /\ UNCHANGED restOfBatch

\* activities.rs line 32: generate_data() reads the clock
LookupGenerate ==
    /\ lookup.phase = "scheduled"
    /\ lookup' = [lookup EXCEPT !.phase = "generated",
                                !.data = generate_data(now, lookup.attempt)]
    /\ UNCHANGED <<now, bpc, window, payments, children, sent, joined>>
    /\ UNCHANGED restOfBatch

\* activities.rs lines 33-58: the activity reads the clock and filters
LookupFilter ==
    /\ lookup.phase = "generated"
    /\ lookup' = [lookup EXCEPT !.phase = "ran",
                                !.result = find_payments_for_day(lookup.data, now)]
    /\ UNCHANGED <<now, bpc, window, payments, children, sent, joined>>
    /\ UNCHANGED restOfBatch

\* the attempt's result did not arrive within start_to_close_timeout
LookupRetry ==
    /\ lookup.phase \in {"scheduled", "generated", "ran"}
    /\ lookup.attempt < MaxAttempts
    /\ lookup' = [attempt |-> lookup.attempt + 1, phase |-> "scheduled",
                  input |-> lookup.input, data |-> <<>>, result |-> <<>>]
    /\ UNCHANGED <<now, bpc, window, payments, children, sent, joined>>
    /\ UNCHANGED restOfBatch

\* lines 46-56: the lookup result is deserialized; second timer
LookupCompleted ==
    /\ bpc = "await_lookup"
    /\ lookup.phase = "ran"
    /\ payments' = lookup.result
    /\ lookup' = [lookup EXCEPT !.phase = "completed"]
    /\ bpc' = "await_timer2"
    /\ UNCHANGED <<now, window, children, sent, joined>>
    /\ UNCHANGED restOfBatch

\* the lookup resolves as failed: unwrap_ok_payload panics
LookupFailed ==
    /\ bpc = "await_lookup"
    /\ lookup.phase \in {"scheduled", "generated", "ran"}
    /\ lookup' = [lookup EXCEPT !.phase = "failed"]
    /\ bpc' = "panicked"
    /\ UNCHANGED <<now, window, payments, children, sent, joined>>
    /\ UNCHANGED restOfBatch

\* lines 58-76: the second timer fired; every child start is issued, then the
\* first child future is awaited
BatchTimer2Fired ==
    /\ bpc = "await_timer2"
    /\ children' = start_children(payments)
    /\ sent' = [i \in 1 .. Len(payments) |-> 0]
    /\ joined' = 0
    /\ bpc' = IF Len(payments) = 0 THEN "completed" ELSE "await_children"
    /\ UNCHANGED <<now, window, lookup, payments>>
    /\ UNCHANGED restOfBatch

\* ChildStarted for a batch that starts child i only after every child before
\* it has ended (start and result awaited one child at a time)
ChildStarted_in_order ==
    \E i \in 1 .. Len(children) :
        /\ children[i].phase = "requested"
        /\ \A j \in 1 .. i - 1 : children[j].phase \in {"completed", "start_failed"}
        /\ children' = [children EXCEPT ![i].phase = "scheduled", ![i].attempt = 1,
                                        ![i].payment = dummy_payment]
        /\ UNCHANGED <<now, bpc, window, lookup, payments, sent, joined>>
        /\ UNCHANGED restOfBatch

\* the runtime starts child i: the registered make_payment closure runs up to
\* its send_payment await (workflows.rs lines 86-96)
ChildStarted ==
    \E i \in 1 .. Len(children) :
        /\ children[i].phase = "requested"
        /\ children' = [children EXCEPT ![i].phase = "scheduled", ![i].attempt = 1,
                                        ![i].payment = dummy_payment]
        /\ UNCHANGED <<now, bpc, window, lookup, payments, sent, joined>>
        /\ UNCHANGED restOfBatch

\* the runtime rejects the start of child i (its workflow id is in use)
ChildStartFailed ==
    \E i \in 1 .. Len(children) :
        /\ children[i].phase = "requested"
        /\ children' = [children EXCEPT ![i].phase = "start_failed"]
        /\ UNCHANGED <<now, bpc, window, lookup, payments, sent, joined>>
        /\ UNCHANGED restOfBatch

\* activities.rs send_payment: a worker runs the body to its end
SendPayment ==
    \E i \in 1 .. Len(children) :
        /\ children[i].phase = "scheduled"
        /\ children' = [children EXCEPT ![i].phase = "ran"]
        /\ sent' = [sent EXCEPT ![i] = @ + 1]
        /\ UNCHANGED <<now, bpc, window, lookup, payments, joined>>
        /\ UNCHANGED restOfBatch

\* the attempt's result did not arrive within start_to_close_timeout
SendPaymentRetry ==
    \E i \in 1 .. Len(children) :
        /\ children[i].phase \in {"scheduled", "ran"}
        /\ children[i].attempt < MaxAttempts
        /\ children' = [children EXCEPT ![i].phase = "scheduled", ![i].attempt = @ + 1]
        /\ UNCHANGED <<now, bpc, window, lookup, payments, sent, joined>>
        /\ UNCHANGED restOfBatch

\* lines 96-100: send_payment's result arrives and make_payment returns
ChildCompleted ==
    \E i \in 1 .. Len(children) :
        /\ children[i].phase = "ran"
        /\ children' = [children EXCEPT ![i].phase = "completed"]
        /\ UNCHANGED <<now, bpc, window, lookup, payments, sent, joined>>
        /\ UNCHANGED restOfBatch

\* send_payment resolves as failed: unwrap_ok_payload panics in make_payment
ChildActivityFailed ==
    \E i \in 1 .. Len(children) :
        /\ children[i].phase \in {"scheduled", "ran"}
        /\ children' = [children EXCEPT ![i].phase = "panicked"]
        /\ UNCHANGED <<now, bpc, window, lookup, payments, sent, joined>>
        /\ UNCHANGED restOfBatch

\* BatchJoin without the wait for the started child's result
BatchJoin_no_result_wait ==
    /\ bpc = "await_children"
    /\ children[joined + 1].phase # "requested"
    /\ joined' = joined + 1
    /\ bpc' = IF joined + 1 = Len(children) THEN "completed" ELSE "await_children"
    /\ UNCHANGED <<now, window, lookup, payments, children, sent>>
    /\ UNCHANGED restOfBatch

\* lines 74-83: the awaited child future resolves (started and finished, or
\* not started); after the last one the batch returns
BatchJoin ==
    /\ bpc = "await_children"
    /\ children[joined + 1].phase \in {"completed", "start_failed"}
    /\ joined' = joined + 1
    /\ bpc' = IF joined + 1 = Len(children) THEN "completed" ELSE "await_children"
    /\ UNCHANGED <<now, window, lookup, payments, children, sent>>
    /\ UNCHANGED restOfBatch

\* the worker lost the cached batch workflow and runs the function again from
\* the start against the history: lines 26-28 read the clock again, every
\* recorded resolution brings the function back to the await it was at
BatchReplay ==
    /\ bpc \in {"await_timer1", "await_lookup", "await_timer2", "await_children"}
    /\ \E t \in InstantsOf(now) : window' = day_window(t)
    /\ UNCHANGED <<now, bpc, lookup, payments, children, sent, joined>>
    /\ UNCHANGED restOfBatch

NextBatch ==
    \/ Tick
    \/ BatchStart
    \/ BatchTimer1Fired
    \/ LookupGenerate
    \/ LookupFilter
    \/ LookupRetry
    \/ LookupCompleted
    \/ LookupFailed
    \/ BatchTimer2Fired
    \/ ChildStarted
    \/ ChildStartFailed
    \/ SendPayment
    \/ SendPaymentRetry
    \/ ChildCompleted
    \/ ChildActivityFailed
    \/ BatchJoin

\* a batch run whose workflow stays cached on its worker
BatchSpec == InitBatch /\ [][NextBatch]_vars

\* a batch run whose worker may lose the cached workflow
NextBatchReplay ==
    \/ NextBatch
    \/ BatchReplay

BatchReplaySpec == InitBatch /\ [][NextBatchReplay]_vars

\* find_payments_for_day called directly with a window, as any client of the
\* activity may: one call at a time, each with its own generate_data()
LookupInvoke ==
    \E d \in StartDays :
        /\ lookup.phase = "none"
        /\ Len(lookups) < MaxLookups
        /\ lookup' = [attempt |-> Len(lookups) + 1, phase |-> "scheduled",
                      input |-> day_window(d * InstantsPerDay), data |-> <<>>, result |-> <<>>]
        /\ UNCHANGED <<now, bpc, window, payments, children, sent, joined, lookups>>
        /\ UNCHANGED <<input, pc, state, commands, history, act, timer, charges, refunds,
                       notified, signals, request, replays, ops, result, overflowChecks>>
        /\ UNCHANGED <<ipVars, statusVars, clientVars>>

\* activities.rs line 58: Ok(payments) goes back to the caller
LookupReturn ==
    /\ lookup.phase = "ran"
    /\ lookups' = Append(lookups, [window |-> lookup.input, result |-> lookup.result])
    /\ lookup' = NoLookup
    /\ UNCHANGED <<now, bpc, window, payments, children, sent, joined>>
    /\ UNCHANGED <<input, pc, state, commands, history, act, timer, charges, refunds,
                   notified, signals, request, replays, ops, result, overflowChecks>>
    /\ UNCHANGED <<ipVars, statusVars, clientVars>>

NextLookup ==
    \/ Tick
    \/ LookupInvoke
    \/ LookupGenerate
    \/ LookupFilter
    \/ LookupReturn

LookupSpec == InitBatch /\ [][NextLookup]_vars

\* activities.rs send_payment: the result for `payment`; `call` distinguishes
\* the fresh Uuid::new_v4() of one execution from another's
send_payment(payment, call) ==
    [amount_in_pence |-> payment.amount_in_pence, transaction_id |-> <<"uuid", call>>]

\* lines 91-100: make_payment binds the activity result to `_result` and
\* returns Ok(WfExitValue::Normal(()))
make_payment_exit_value(activity_result) == [kind |-> "Normal", value |-> <<>>]

\* lines 82-83: what the batch returns, Ok(WfExitValue::Normal(()))
find_due_payments_exit_value == [kind |-> "Normal", value |-> <<>>]

\* the steps the runtime and the workers take whenever they can: starting the
\* workflow, firing timers, running and completing activities, starting
\* children, resuming the batch.  Failures, lost results, rejected starts and
\* the passing of midnight are not owed.
BatchProgress ==
    \/ BatchStart
    \/ BatchTimer1Fired
    \/ LookupGenerate
    \/ LookupFilter
    \/ LookupCompleted
    \/ BatchTimer2Fired
    \/ ChildStarted
    \/ SendPayment
    \/ ChildCompleted
    \/ BatchJoin

FairBatchSpec == InitBatch /\ [][NextBatch]_vars /\ WF_vars(BatchProgress)

(***************************************************************************)
(* Properties of the payment batch (checked under BatchSpec).              *)
(***************************************************************************)
\* C2: within one batch run no due payment has its send-payment side effect
\* applied more than once, also when the runtime hands send_payment out again.
C2_PaidAtMostOnce == \A i \in 1 .. Len(sent) : sent[i] <= 1

ChildIds == 1 .. Len(children)
ChildrenIssued == bpc \in {"await_children", "completed"}
\* the phases of a child whose start was accepted
StartedPhases == {"scheduled", "ran", "completed", "panicked"}

\* C16: the batch does not complete until every child it started has reached
\* its result; the failure of one child neither makes the batch return early
\* nor touches its siblings, and the batch's own steps leave every child alone.
C16_BatchWaitsForChildren ==
    [][/\ bpc' = "completed"
            => \A i \in 1 .. Len(children') :
                  children'[i].phase \in {"completed", "start_failed"}
       /\ (ChildrenIssued /\ (bpc' # bpc \/ joined' # joined)) => children' = children
       /\ ChildrenIssued
            => \A i \in ChildIds :
                  children'[i] # children[i]
                     => \A j \in ChildIds \ {i} : children'[j] = children[j]]_vars

\* one child has failed, a sibling has finished and been joined, and the batch
\* is still waiting
C16_Witness ==
    /\ bpc = "await_children"
    /\ joined >= 1
    /\ \E i, j \in ChildIds :
          /\ children[i].phase = "panicked"
          /\ j > i
          /\ children[j].phase = "completed"

\* C17: when N children were started and K of them failed, the batch reports
\* exactly K failures and N - K successes.
C17_ReportsFailures ==
    bpc = "completed" =>
        LET v == find_due_payments_exit_value.value
            N == Cardinality({i \in ChildIds : children[i].phase # "start_failed"})
            K == Cardinality({i \in ChildIds : children[i].phase \notin {"completed", "start_failed"}})
        IN /\ DOMAIN v = {"failed", "succeeded"}
           /\ v.failed = K
           /\ v.succeeded = N - K

\* C18: when the send_payment of one child has failed for good while the
\* other children succeed, the batch still completes.
C18_BatchCompletesDespiteFailure ==
    (/\ ChildrenIssued
     /\ Len(children) >= 2
     /\ \E i \in ChildIds :
           /\ children[i].phase = "panicked"
           /\ \A j \in ChildIds \ {i} : children[j].phase = "completed")
        ~> (bpc = "completed")

\* C19: for N due records the batch issues exactly N child starts, one per
\* record in order, with pairwise distinct workflow ids.
C19_OneChildPerRecord ==
    ChildrenIssued =>
        /\ Len(children) = Len(payments)
        /\ \A i \in ChildIds : children[i].input = payments[i]
        /\ \A i, j \in ChildIds : i # j => children[i].workflow_id # children[j].workflow_id

\* three children have been issued and all have been started
C19_Witness ==
    /\ ChildrenIssued
    /\ Len(children) = 3
    /\ \A i \in ChildIds : children[i].phase \in StartedPhases

\* C20: every due record goes to exactly one child, and the record that
\* child's send_payment is invoked with is the record the batch gave it.
C20_ChildPaysItsRecord ==
    ChildrenIssued =>
        /\ Len(children) = Len(payments)
        /\ \A i \in ChildIds :
              /\ children[i].input = payments[i]
              /\ children[i].phase \in StartedPhases => children[i].payment = children[i].input

\* the children whose send_payment has resolved as failed
SendPaymentFailed(i) == children[i].phase \in {"panicked", "failed"}

\* C21: when the send_payment of a child has failed for good, the child ends
\* in the Failed state; it is not retried and does not remain running.
C21_FailedChildTerminates ==
    \A i \in ChildIds : SendPaymentFailed(i) => children[i].phase = "failed"

\* C22: when send_payment succeeds, the child returns to the batch a
\* SendPaymentResult whose amount is the amount of the record the child was
\* given and whose transaction id is the one the activity produced.
C22_ChildReturnsResult ==
    \A i \in ChildIds :
        children[i].phase = "completed" =>
            LET r == send_payment(children[i].payment, sent[i])
                v == make_payment_exit_value(r).value
            IN /\ DOMAIN v = {"amount_in_pence", "transaction_id"}
               /\ v.amount_in_pence = children[i].input.amount_in_pence
               /\ v.transaction_id = r.transaction_id

(***************************************************************************)
(* iplocate-rust: get_address_from_ip, as the function of (input,          *)
(* resolutions) the runtime runs, and the runtime's handling of the        *)
(* attempts of its two activities.                                         *)
(***************************************************************************)
\* what get_ip and get_location_info can return
IpAddrs == {"203.0.113.42", "198.51.100.7"}
Locations == {"Mountain View, California, United States", "Kuala Lumpur, Kuala Lumpur, Malaysia"}
\* the messages of the errors the activities can fail with
IpErrors == {"WIFI_DISABLED: No network connection available"}
\* WorkflowInput.seconds
SleepSeconds == {0, 5}

NoIpTask == [type |-> "none", input |-> "none", attempt |-> 0, phase |-> "none"]
NoIpOutput == [kind |-> "none"]
IpTimerCmd(seconds) == [kind |-> "timer", type |-> "timer", input |-> seconds]
IpEvent(kind, payload) == [kind |-> kind, payload |-> payload]

\* workflows.rs lines 10-20: schedule get_ip and await it
get_address_from_ip_start(in) ==
    [pc |-> "await_get_ip", commands |-> <<ActivityCmd("get_ip", "unit")>>,
     history |-> <<>>, output |-> NoIpOutput]

\* lines 38-46: schedule get_location_info with the ip and await it
schedule_location(w, h, ip) ==
    [pc |-> "await_get_location_info",
     commands |-> Append(w.commands, ActivityCmd("get_location_info", ip)),
     history |-> h, output |-> NoIpOutput]

\* success_payload_or_error()? on a failed resolution: the function returns Err
workflow_failed(w, h, message) ==
    [pc |-> "failed", commands |-> w.commands, history |-> h,
     output |-> [kind |-> "Failed", message |-> message]]

\* get_address_from_ip_resume with the failure of get_ip not propagated: the
\* function goes on with an empty address
get_address_from_ip_resume_unchecked(in, w, ev) ==
    LET h == Append(w.history, ev)
    IN CASE w.pc = "await_get_ip" ->
              LET ip == IF ev.kind = "ActivityCompleted" THEN ev.payload ELSE ""
              IN IF in.seconds > 0
                 THEN [pc |-> "await_timer",
                       commands |-> Append(w.commands, IpTimerCmd(in.seconds)),
                       history |-> h, output |-> NoIpOutput]
                 ELSE schedule_location(w, h, ip)
         [] w.pc = "await_timer" -> schedule_location(w, h, h[1].payload)
         [] w.pc = "await_get_location_info" ->
              IF ev.kind = "ActivityCompleted"
              THEN [pc |-> "completed", commands |-> w.commands, history |-> h,
                    output |-> [kind |-> "Normal", ip_addr |-> h[1].payload,
                                location |-> ev.payload]]
              ELSE workflow_failed(w, h, ev.payload)
         [] OTHER -> w

\* lines 20-62: the code between one await and the next, given the resolution `ev`
get_address_from_ip_resume(in, w, ev) ==
    LET h == Append(w.history, ev)
    IN CASE w.pc = "await_get_ip" ->
              IF ev.kind = "ActivityCompleted"
              THEN IF in.seconds > 0
                   THEN [pc |-> "await_timer",
                         commands |-> Append(w.commands, IpTimerCmd(in.seconds)),
                         history |-> h, output |-> NoIpOutput]
                   ELSE schedule_location(w, h, ev.payload)
              ELSE workflow_failed(w, h, ev.payload)
         [] w.pc = "await_timer" -> schedule_location(w, h, h[1].payload)
         [] w.pc = "await_get_location_info" ->
              IF ev.kind = "ActivityCompleted"
              THEN [pc |-> "completed", commands |-> w.commands, history |-> h,
                    output |-> [kind |-> "Normal", ip_addr |-> h[1].payload,
                                location |-> ev.payload]]
              ELSE workflow_failed(w, h, ev.payload)
         [] OTHER -> w

restOfIp == <<input, pc, state, commands, history, act, timer, charges, refunds,
              notified, signals, request, replays, ops, result, overflowChecks,
              now, bpc, window, lookup, payments, children, sent, joined, lookups,
              text, parsed, clientVars>>

InitIp ==
    /\ ipInput \in {[name |-> "RetryTest", seconds |-> sec] : sec \in SleepSeconds}
    /\ ipPc = "not_started"
    /\ ipCommands = <<>>
    /\ ipHistory = <<>>
    /\ ipAct = NoIpTask
    /\ ipLog = <<>>
    /\ ipOutput = NoIpOutput
    /\ lookups = <<>>
    /\ ClientIdle
    /\ text = <<>>
    /\ parsed = [kind |-> "none"]
    /\ input = NewOrderState
    /\ pc = "not_started"
    /\ state = NewOrderState
    /\ commands = <<>>
    /\ history = <<>>
    /\ act = NoTask
    /\ timer = FALSE
    /\ charges = 0
    /\ refunds = 0
    /\ notified = <<>>
    /\ signals = 0
    /\ request = NoRequest
    /\ replays = 0
    /\ ops = <<>>
    /\ result = "none"
    /\ overflowChecks = FALSE
    /\ BatchIdle

\* the workflow's memory, as the record the workflow function works on
IpWorkflow == [pc |-> ipPc, commands |-> ipCommands, history |-> ipHistory, output |-> ipOutput]

\* install the result `w` of a workflow step; a new activity command gets a task
IpAdvance(w) ==
    /\ ipPc' = w.pc
    /\ ipCommands' = w.commands
    /\ ipHistory' = w.history
    /\ ipOutput' = w.output
    /\ ipAct' = LET cmd == w.commands[Len(w.commands)]
                IN IF Len(w.commands) > Len(ipCommands) /\ cmd.kind = "activity"
                   THEN [type |-> cmd.type, input |-> cmd.input, attempt |-> 1,
                         phase |-> "scheduled"]
                   ELSE NoIpTask

IpStartWorkflow ==
    /\ ipPc = "not_started"
    /\ IpAdvance(get_address_from_ip_start(ipInput))
    /\ UNCHANGED <<ipInput, ipLog>>
    /\ UNCHANGED restOfIp

\* what an attempt of the activity `type` can return
ValuesOf(type) == IF type = "get_ip" THEN IpAddrs ELSE Locations

Attempt(outcome, value) ==
    [type |-> ipAct.type, attempt |-> ipAct.attempt, outcome |-> outcome, value |-> value]

\* an attempt returns Ok(value): the resolution is delivered to the workflow
IpAttemptSucceeded ==
    \E v \in ValuesOf(ipAct.type) :
        /\ ipAct.phase = "scheduled"
        /\ ipLog' = Append(ipLog, Attempt("Ok", v))
        /\ IpAdvance(get_address_from_ip_resume(ipInput, IpWorkflow,
                                                IpEvent("ActivityCompleted", v)))
        /\ UNCHANGED ipInput
        /\ UNCHANGED restOfIp

\* IpAttemptRetryable with the failure handed to the workflow instead of retried
IpAttemptRetryable_surfaced ==
    \E e \in IpErrors :
        /\ ipAct.phase = "scheduled"
        /\ ipAct.attempt < MaxIpAttempts
        /\ ipLog' = Append(ipLog, Attempt("Retryable", e))
        /\ IpAdvance(get_address_from_ip_resume(ipInput, IpWorkflow,
                                                IpEvent("ActivityFailed", e)))
        /\ UNCHANGED ipInput
        /\ UNCHANGED restOfIp

\* an attempt returns ActivityError::Retryable, or its result does not arrive
\* within start_to_close_timeout: under the default retry policy the runtime
\* runs another attempt and tells the workflow nothing
IpAttemptRetryable ==
    \E e \in IpErrors :
        /\ ipAct.phase = "scheduled"
        /\ ipAct.attempt < MaxIpAttempts
        /\ ipLog' = Append(ipLog, Attempt("Retryable", e))
        /\ ipAct' = [ipAct EXCEPT !.attempt = @ + 1]
        /\ UNCHANGED <<ipInput, ipPc, ipCommands, ipHistory, ipOutput>>
        /\ UNCHANGED restOfIp

\* an attempt returns ActivityError::NonRetryable: no further attempt, the
\* failed resolution is delivered to the workflow
IpAttemptNonRetryable ==
    \E e \in IpErrors :
        /\ ipAct.phase = "scheduled"
        /\ ipLog' = Append(ipLog, Attempt("NonRetryable", e))
        /\ IpAdvance(get_address_from_ip_resume(ipInput, IpWorkflow,
                                                IpEvent("ActivityFailed", e)))
        /\ UNCHANGED ipInput
        /\ UNCHANGED restOfIp

\* lines 30-36: the requested sleep is over
IpTimerFired ==
    /\ ipPc = "await_timer"
    /\ IpAdvance(get_address_from_ip_resume(ipInput, IpWorkflow, IpEvent("TimerFired", "")))
    /\ UNCHANGED <<ipInput, ipLog>>
    /\ UNCHANGED restOfIp

NextIp ==
    \/ IpStartWorkflow
    \/ IpAttemptSucceeded
    \/ IpAttemptRetryable
    \/ IpAttemptNonRetryable
    \/ IpTimerFired

IpSpec == InitIp /\ [][NextIp]_vars

\* the attempts of get_ip, in order
GetIpAttempts == SelectSeq(ipLog, LAMBDA a : a.type = "get_ip")
LocationAttempts == SelectSeq(ipLog, LAMBDA a : a.type = "get_location_info")
CommandTypes == {ipCommands[i].type : i \in 1 .. Len(ipCommands)}

\* C28: when get_ip fails with a non-retryable error, the workflow execution
\* ends Failed, get_location_info is never scheduled and no timer is started.
C28_PermanentFailureFails ==
    (\E i \in 1 .. Len(GetIpAttempts) : GetIpAttempts[i].outcome = "NonRetryable")
        => /\ ipPc = "failed"
           /\ ipOutput.kind = "Failed"
           /\ ipOutput.message \in IpErrors
           /\ CommandTypes = {"get_ip"}
           /\ ipAct = NoIpTask

\* get_ip has failed for good in a workflow that was asked to sleep
C28_Witness ==
    /\ ipInput.seconds > 0
    /\ ipPc = "failed"
    /\ Len(GetIpAttempts) >= 1
    /\ GetIpAttempts[Len(GetIpAttempts)].outcome = "NonRetryable"

\* get_ip failed with a retryable error twice and succeeded on the third attempt
FailedTwiceThenOk ==
    /\ Len(GetIpAttempts) >= 3
    /\ GetIpAttempts[1].outcome = "Retryable"
    /\ GetIpAttempts[2].outcome = "Retryable"
    /\ GetIpAttempts[3].outcome = "Ok"

\* C29: when get_ip fails with a retryable error on its first two attempts and
\* succeeds on the third, the workflow never observes the failures; once
\* get_location_info has returned it has completed with ip_addr equal to the
\* value of the successful attempt and location equal to the
\* get_location_info result, after at least three get_ip attempts.
C29_RetriesAreInvisible ==
    /\ (Len(GetIpAttempts) >= 1
            /\ \A i \in 1 .. Len(GetIpAttempts) : GetIpAttempts[i].outcome = "Retryable")
          => (ipHistory = <<>> /\ ipPc = "await_get_ip")
    /\ FailedTwiceThenOk
          => /\ Len(GetIpAttempts) = 3
             /\ ipHistory[1] = IpEvent("ActivityCompleted", GetIpAttempts[3].value)
             /\ \A i \in 1 .. Len(ipHistory) :
                   ipHistory[i].kind = "ActivityFailed"
                      => (/\ i = Len(ipHistory)
                          /\ LocationAttempts # <<>>
                          /\ LocationAttempts[Len(LocationAttempts)].outcome = "NonRetryable")
             /\ (LocationAttempts # <<>>
                    /\ LocationAttempts[Len(LocationAttempts)].outcome = "Ok")
                   => /\ ipPc = "completed"
                      /\ ipOutput.kind = "Normal"
                      /\ ipOutput.ip_addr = GetIpAttempts[3].value
                      /\ ipOutput.location = LocationAttempts[Len(LocationAttempts)].value

\* the workflow has completed after two failed attempts of get_ip
C29_Witness ==
    /\ FailedTwiceThenOk
    /\ ipPc = "completed"
    /\ ipOutput.ip_addr = "203.0.113.42"
    /\ ipOutput.location = "Mountain View, California, United States"

(***************************************************************************)
(* types.rs: impl FromStr for OrderStatus / impl Display for OrderStatus.  *)
(* A text is a sequence of characters; "dotless_i" stands for U+0131, the  *)
(* one non-ASCII character that str::to_uppercase maps to a letter of a    *)
(* status name (to I).                                                     *)
(***************************************************************************)
UpperLetters == <<"A", "C", "D", "E", "F", "G", "I", "J", "L", "M", "N", "O", "P", "R", "T", "U", "V", "Y">>
LowerLetters == <<"a", "c", "d", "e", "f", "g", "i", "j", "l", "m", "n", "o", "p", "r", "t", "u", "v", "y">>

\* char::to_uppercase on the characters of the model
to_uppercase_char(c) ==
    IF \E i \in 1 .. Len(LowerLetters) : LowerLetters[i] = c
    THEN UpperLetters[CHOOSE i \in 1 .. Len(LowerLetters) : LowerLetters[i] = c]
    ELSE IF c = "dotless_i" THEN "I" ELSE c

\* str::to_uppercase
to_uppercase(t) == [i \in 1 .. Len(t) |-> to_uppercase_char(t[i])]

\* Display::fmt (lines 48-58)
to_string(status) ==
    CASE status = "DEFAULT" -> <<"D", "E", "F", "A", "U", "L", "T">>
      [] status = "PENDING" -> <<"P", "E", "N", "D", "I", "N", "G">>
      [] status = "ACCEPTED" -> <<"A", "C", "C", "E", "P", "T", "E", "D">>
      [] status = "PREPARING" -> <<"P", "R", "E", "P", "A", "R", "I", "N", "G">>
      [] status = "READY" -> <<"R", "E", "A", "D", "Y">>
      [] status = "REJECTED" -> <<"R", "E", "J", "E", "C", "T", "E", "D">>
      [] status = "COMPLETED" -> <<"C", "O", "M", "P", "L", "E", "T", "E", "D">>

Ok(status) == [kind |-> "Ok", status |-> status, message |-> <<>>]
Err(message) == [kind |-> "Err", status |-> "none", message |-> message]
NotParsed == [kind |-> "none", status |-> "none", message |-> <<>>]

\* FromStr::from_str (lines 33-45)
from_str(t) ==
    LET u == to_uppercase(t)
    IN CASE u = <<"D", "E", "F", "A", "U", "L", "T">> -> Ok("DEFAULT")
         [] u = <<"P", "E", "N", "D", "I", "N", "G">> -> Ok("PENDING")
         [] u = <<"A", "C", "C", "E", "P", "T", "E", "D">> -> Ok("ACCEPTED")
         [] u = <<"P", "R", "E", "P", "A", "R", "I", "N", "G">> -> Ok("PREPARING")
         [] u = <<"R", "E", "A", "D", "Y">> -> Ok("READY")
         [] u = <<"R", "E", "J", "E", "C", "T", "E", "D">> -> Ok("REJECTED")
         [] u = <<"C", "O", "M", "P", "L", "E", "T", "E", "D">> -> Ok("COMPLETED")
         [] OTHER -> Err(<<"Invalid status: ">> \o t)

\* the ways one character of a name can be written
FormsOf(c) ==
    {c} \cup {LowerLetters[i] : i \in {j \in 1 .. Len(UpperLetters) : UpperLetters[j] = c}}
        \cup (IF c = "I" THEN {"dotless_i"} ELSE {})

RECURSIVE Variants(_)
\* the texts that spell `name` with every character in any of its forms
Variants(name) ==
    IF name = <<>> THEN {<<>>}
    ELSE {<<c>> \o rest : c \in FormsOf(Head(name)), rest \in Variants(Tail(name))}

\* texts that are no status name: the empty text, INVALID, and each name cut
\* short, extended, or followed by a space
NonNames ==
    {<<>>, <<"I", "N", "V", "A", "L", "I", "D">>, <<"D", "O", "N", "E">>}
        \cup UNION {{SubSeq(to_string(st), 1, Len(to_string(st)) - 1),
                     Append(to_string(st), "S"),
                     Append(to_string(st), " ")} : st \in OrderStatus}

Texts == NonNames \cup UNION {Variants(to_string(st)) : st \in OrderStatus}

restOfStatus == <<input, pc, state, commands, history, act, timer, charges, refunds,
                  notified, signals, request, replays, ops, result, overflowChecks,
                  now, bpc, window, lookup, payments, children, sent, joined, lookups,
                  ipVars, clientVars>>

InitStatus ==
    /\ text \in Texts
    /\ parsed = NotParsed
    /\ lookups = <<>>
    /\ ClientIdle
    /\ ipInput = [name |-> "", seconds |-> 0]
    /\ ipPc = "not_started"
    /\ ipCommands = <<>>
    /\ ipHistory = <<>>
    /\ ipAct = NoIpTask
    /\ ipLog = <<>>
    /\ ipOutput = NoIpOutput
    /\ input = NewOrderState
    /\ pc = "not_started"
    /\ state = NewOrderState
    /\ commands = <<>>
    /\ history = <<>>
    /\ act = NoTask
    /\ timer = FALSE
    /\ charges = 0
    /\ refunds = 0
    /\ notified = <<>>
    /\ signals = 0
    /\ request = NoRequest
    /\ replays = 0
    /\ ops = <<>>
    /\ result = "none"
    /\ overflowChecks = FALSE
    /\ BatchIdle

\* text.parse::<OrderStatus>()
FromStr ==
    /\ parsed = NotParsed
    /\ parsed' = from_str(text)
    /\ UNCHANGED text
    /\ UNCHANGED restOfStatus

\* format!("{}", status) of the status just parsed
Fmt ==
    /\ parsed.kind = "Ok"
    /\ text' = to_string(parsed.status)
    /\ parsed' = NotParsed
    /\ UNCHANGED restOfStatus

NextStatus ==
    \/ FromStr
    \/ Fmt

StatusSpec == InitStatus /\ [][NextStatus]_vars

\* ASCII lower case of a character, and texts equal but for ASCII letter case
AsciiLower(c) ==
    IF \E i \in 1 .. Len(UpperLetters) : UpperLetters[i] = c
    THEN LowerLetters[CHOOSE i \in 1 .. Len(UpperLetters) : UpperLetters[i] = c]
    ELSE c
SameButCase(t, u) ==
    /\ Len(t) = Len(u)
    /\ \A i \in 1 .. Len(t) : AsciiLower(t[i]) = AsciiLower(u[i])
NamedBy(t) == {st \in OrderStatus : SameButCase(t, to_string(st))}

\* C30: parsing the text Display produces for a status returns that status;
\* parsing ignores letter case; a text that is none of the seven names is
\* rejected with an error.
C30_ParseDisplayRoundTrip ==
    [][(parsed = NotParsed /\ parsed' # parsed)
          => /\ \A st \in OrderStatus : text = to_string(st) => parsed' = Ok(st)
             /\ \A st \in NamedBy(text) : parsed' = Ok(st)
             /\ NamedBy(text) = {} => parsed'.kind = "Err"]_vars

(***************************************************************************)
(* Properties of the due-payment lookup (checked under LookupSpec) and of  *)
(* the batch's window and replay.                                          *)
(***************************************************************************)
\* ISO weekday (1 = Monday .. 7 = Sunday) and day of month of the days of the
\* model's calendar: Monday 29 December 2025 is day 0
Calendar ==
    <<[weekday |-> 1, day |-> 29], [weekday |-> 2, day |-> 30], [weekday |-> 3, day |-> 31],
      [weekday |-> 4, day |-> 1], [weekday |-> 5, day |-> 2], [weekday |-> 6, day |-> 3],
      [weekday |-> 7, day |-> 4], [weekday |-> 1, day |-> 5], [weekday |-> 2, day |-> 6]>>
Today == Calendar[now + 1]

\* the rule of the due set
Due(item) ==
    \/ item.schedule = "Daily"
    \/ item.schedule = "Weekly" /\ item.schedule_time = Today.weekday
    \/ item.schedule = "Monthly" /\ item.schedule_time = Today.day

RECURSIVE SubSeqOf(_, _)
\* `r` takes its elements from `d`, in order
SubSeqOf(r, d) ==
    IF r = <<>> THEN TRUE
    ELSE IF d = <<>> THEN FALSE
    ELSE IF Head(r) = Head(d) THEN SubSeqOf(Tail(r), Tail(d))
    ELSE SubSeqOf(r, Tail(d))

Range(f) == {f[i] : i \in DOMAIN f}

\* C23: the lookup returns exactly the records that are Daily, or Weekly with
\* the anchor equal to today's ISO weekday, or Monthly with the anchor equal
\* to today's day of month (today being the day the activity reads).
C23_LookupSelectsDue ==
    [][(lookup.phase = "generated" /\ lookup'.phase = "ran")
          => /\ SubSeqOf(lookup'.result, lookup.data)
             /\ Range(lookup'.result) = {item \in Range(lookup.data) : Due(item)}]_vars

\* a lookup has returned the daily, one weekly and one monthly record of seven
C23_Witness ==
    /\ lookups # <<>>
    /\ {item.schedule : item \in Range(lookups[1].result)} = {"Daily", "Weekly", "Monthly"}
    /\ Len(lookups[1].result) = 3

\* the records of a result, without the generated sender and recipient ids
RecordsOf(r) ==
    {[schedule |-> item.schedule, schedule_time |-> item.schedule_time,
      amount_in_pence |-> item.amount_in_pence] : item \in Range(r)}

\* C24: two lookups with the same window return the same set of records,
\* whatever the clock at each call.
C24_LookupIdempotent ==
    \A i, j \in 1 .. Len(lookups) :
        lookups[i].window = lookups[j].window
            => RecordsOf(lookups[i].result) = RecordsOf(lookups[j].result)

\* C25: the window the batch computes starts at 00:00 of the current day and
\* ends exactly one day later, so every instant of the current day lies in it.
C25_WindowIsToday ==
    [][(bpc = "not_started" /\ bpc' # bpc)
          => /\ window'[1] = now * InstantsPerDay
             /\ window'[2] = window'[1] + InstantsPerDay
             /\ \A t \in InstantsOf(now) : window'[1] <= t /\ t < window'[2]]_vars

\* the lookup has been scheduled with the window of a run started on 1 January
C25_Witness ==
    /\ bpc = "await_lookup"
    /\ lookup.input = window
    /\ window = <<3 * InstantsPerDay, 4 * InstantsPerDay>>

\* C26: an execution of the batch and a replay of it that get the same events
\* issue the same commands with the same arguments: the (start, end) window
\* the replay computes is the one the lookup was scheduled with.
C26_ReplayKeepsWindow ==
    lookup.phase # "none" => window = lookup.input

(***************************************************************************)
(* Further properties of the cart operations (checked under CartSpec).     *)
(***************************************************************************)
\* C31: from the empty cart, after any sequence of add_item and remove_item
\* the cart never holds two entries with the same product id.
C31_UniqueProductIds ==
    \A i, j \in 1 .. Len(state.products) :
        state.products[i].product_id = state.products[j].product_id => i = j

\* two adds of product 1 around an add of product 2 have left two entries
C31_Witness ==
    /\ ops = ScenarioAdds
    /\ state.products = <<Entry(1, 3), Entry(2, 1)>>

\* the entries of `products` for products other than `id`, in their order
OtherEntries(products, id) == SelectSeq(products, LAMBDA e : e.product_id # id)
\* the product ids of `products`, in their order
IdsOf(products) == [i \in 1 .. Len(products) |-> products[i].product_id]

\* C32: add_item and remove_item for product p leave the entries of every
\* other product as they were and in the same relative order; a newly added
\* product is pushed last, an existing one keeps its position, a removed one
\* leaves the others in place; status, email, collection and delivery address
\* do not change.
C32_CartFrame ==
    [][ops' # ops
          => LET p == ops'[Len(ops')].item.product_id
                 kind == ops'[Len(ops')].kind
                 old == state.products
                 new == state'.products
             IN /\ OtherEntries(new, p) = OtherEntries(old, p)
                /\ \/ IdsOf(new) = IdsOf(old)
                   \/ /\ kind = "ADD_ITEM"
                      /\ EntriesOf(old, p) = {}
                      /\ IdsOf(new) = Append(IdsOf(old), p)
                   \/ /\ kind = "REMOVE_ITEM"
                      /\ EntriesOf(old, p) # {}
                      /\ IdsOf(new) = IdsOf(OtherEntries(old, p))
                /\ [state' EXCEPT !.products = old] = state]_vars

\* product 2 has been pushed behind the entry of product 1, then product 1
\* has been added to again and has kept the first position
C32_Witness ==
    /\ ops = <<Cmd("ADD_ITEM", 1, 1), Cmd("ADD_ITEM", 2, 2), Cmd("ADD_ITEM", 1, 1)>>
    /\ state.products = <<Entry(1, 2), Entry(2, 2)>>

(***************************************************************************)
(* Further properties of the order workflow (checked under Spec).          *)
(***************************************************************************)
\* C33: whatever status the input OrderState carries, the order's status is
\* DEFAULT when the workflow has begun and take_payment is scheduled, and the
\* cart, email, collection and delivery address of the input are kept as they
\* were throughout the run.
C33_StartsInDefault ==
    /\ pc = "await_take_payment"
          => /\ state.status = "DEFAULT"
             /\ commands = <<ActivityCmd("take_payment", <<>>)>>
    /\ [state EXCEPT !.status = input.status] = input

\* an order handed in as COMPLETED with a cart has its payment scheduled
C33_Witness ==
    /\ input.status = "COMPLETED"
    /\ input.products # <<>>
    /\ pc = "await_take_payment"
    /\ act.type = "take_payment"
    /\ act.phase = "scheduled"

(***************************************************************************)
(* Further properties of the batch workflow (checked under BatchSpec).     *)
(***************************************************************************)
\* C34: the batch issues the start of every due payment's child before it
\* waits for any of them: while it waits, every payment has its child, and a
\* child whose start is still requested can be started at once whatever state
\* the children before it are in (slow, failed or finished).
C34_ChildrenRunConcurrently ==
    /\ ChildrenIssued => Len(children) = Len(payments)
    /\ joined > 0 => ChildrenIssued
    /\ \A j \in ChildIds :
          children[j].phase = "requested"
             => ENABLED (ChildStarted /\ children'[j].phase = "scheduled")

\* nothing is joined yet, the first child is still running its first attempt,
\* the second has failed, and the third has been started and has finished
C34_Witness ==
    /\ bpc = "await_children"
    /\ joined = 0
    /\ Len(children) = 3
    /\ children[1].phase = "scheduled"
    /\ children[2].phase = "panicked"
    /\ children[3].phase = "completed"

\* C35: whenever the batch has completed, every payment the lookup returned
\* has a child that was started and has reached its result; a child whose
\* start was rejected is neither counted as completed nor skipped.
C35_CompletesOnlyWithStartedChildren ==
    bpc = "completed"
       => /\ Len(children) = Len(payments)
          /\ \A i \in ChildIds : children[i].phase = "completed"

(***************************************************************************)
(* Further properties of the lookup (checked under BatchSpec and           *)
(* LookupSpec).                                                            *)
(***************************************************************************)
\* the calendar day of the window the lookup was scheduled with
WindowDay == Calendar[(lookup.input[1] \div InstantsPerDay) + 1]

\* the rule of the due set, for the day of the window
DueInWindow(item) ==
    \/ item.schedule = "Daily"
    \/ item.schedule = "Weekly" /\ item.schedule_time = WindowDay.weekday
    \/ item.schedule = "Monthly" /\ item.schedule_time = WindowDay.day

\* C37: the day by which the lookup decides which Weekly and Monthly records
\* are due is the day of the window the batch computed and passed in, also
\* when the activity runs after midnight has passed since then.
C37_LookupUsesWindowDay ==
    [][(bpc = "await_lookup" /\ lookup.phase = "generated" /\ lookup'.phase = "ran")
          => Range(lookup'.result) = {item \in Range(lookup.data) : DueInWindow(item)}]_vars

\* C38: every invocation of the lookup returns exactly three of the seven
\* generated records: the Daily one and the Weekly and Monthly ones anchored on
\* the day the data was generated for, never one generated as due yesterday or
\* tomorrow, also when midnight passes between the two clock reads.
C38_LookupReturnsTodaysThree ==
    [][(lookup.phase = "generated" /\ lookup'.phase = "ran")
          => /\ Len(lookup.data) = 7
             /\ lookup'.result = <<lookup.data[1], lookup.data[3], lookup.data[6]>>]_vars

(***************************************************************************)
(* Termination of the order workflow (checked under FairOrderSpec).        *)
(***************************************************************************)
\* C40: when every scheduled activity eventually returns a result, completed
\* or failed, and the timer eventually fires (and the workflow is not left
\* evicted for ever), the order workflow eventually terminates with the order
\* COMPLETED or REJECTED.
C40_OrderTerminates ==
    []<>(pc # "evicted") => <>(pc = "completed" /\ state.status \in TerminalStatuses)

(***************************************************************************)
(* Batch runs side by side in one namespace: each run from its child loop  *)
(* on (workflows.rs lines 58-83), and the runtime's rule that a workflow   *)
(* id names at most one open execution.                                    *)
(***************************************************************************)
restOfClient == <<input, pc, state, commands, history, act, timer, charges, refunds,
                  notified, signals, request, replays, ops, result, overflowChecks,
                  now, bpc, window, lookup, payments, children, sent, joined, lookups,
                  ipVars, statusVars>>

InitOverlap ==
    /\ ClientIdle
    /\ lookups = <<>>
    /\ ipInput = [name |-> "", seconds |-> 0]
    /\ ipPc = "not_started"
    /\ ipCommands = <<>>
    /\ ipHistory = <<>>
    /\ ipAct = NoIpTask
    /\ ipLog = <<>>
    /\ ipOutput = NoIpOutput
    /\ text = <<>>
    /\ parsed = NotParsed
    /\ input = NewOrderState
    /\ pc = "not_started"
    /\ state = NewOrderState
    /\ commands = <<>>
    /\ history = <<>>
    /\ act = NoTask
    /\ timer = FALSE
    /\ charges = 0
    /\ refunds = 0
    /\ notified = <<>>
    /\ signals = 0
    /\ request = NoRequest
    /\ replays = 0
    /\ ops = <<>>
    /\ result = "none"
    /\ overflowChecks = FALSE
    /\ BatchIdle

\* the workflow ids of the executions that are open in the namespace
OpenIds ==
    UNION {{runs[r].children[i].workflow_id :
               i \in {k \in 1 .. Len(runs[r].children) :
                         runs[r].children[k].phase = "running"}} :
           r \in 1 .. Len(runs)}

\* lines 58-72 in a further run: its second timer fired and it issues one
\* child start per payment of its lookup result
RunIssuesChildren ==
    \E d \in StartDays :
        /\ Len(runs) < MaxRuns
        /\ LET ps == find_payments_for_day(generate_data(d, Len(runs) + 1), d)
           IN runs' = Append(runs, [payments |-> ps, children |-> start_children(ps),
                                    joined |-> 0, bpc |-> "await_children"])
        /\ UNCHANGED <<execs, polls>>
        /\ UNCHANGED restOfClient

\* the runtime accepts the start of a child: no open execution has its id
RunChildStarted ==
    \E r \in 1 .. Len(runs) : \E i \in 1 .. Len(runs[r].children) :
        /\ runs[r].children[i].phase = "requested"
        /\ runs[r].children[i].workflow_id \notin OpenIds
        /\ runs' = [runs EXCEPT ![r].children[i].phase = "running"]
        /\ UNCHANGED <<execs, polls>>
        /\ UNCHANGED restOfClient

\* the runtime rejects the start of a child: an execution with its id is open
RunChildRejected ==
    \E r \in 1 .. Len(runs) : \E i \in 1 .. Len(runs[r].children) :
        /\ runs[r].children[i].phase = "requested"
        /\ runs[r].children[i].workflow_id \in OpenIds
        /\ runs' = [runs EXCEPT ![r].children[i].phase = "start_failed"]
        /\ UNCHANGED <<execs, polls>>
        /\ UNCHANGED restOfClient

\* make_payment returns in a started child
RunChildCompleted ==
    \E r \in 1 .. Len(runs) : \E i \in 1 .. Len(runs[r].children) :
        /\ runs[r].children[i].phase = "running"
        /\ runs' = [runs EXCEPT ![r].children[i].phase = "completed"]
        /\ UNCHANGED <<execs, polls>>
        /\ UNCHANGED restOfClient

\* lines 74-83 in run r: the awaited child future resolves (started and
\* finished, or not started); after the last one the run returns
RunJoin ==
    \E r \in 1 .. Len(runs) :
        /\ runs[r].bpc = "await_children"
        /\ runs[r].children[runs[r].joined + 1].phase \in {"completed", "start_failed"}
        /\ runs' = [runs EXCEPT ![r].joined = @ + 1,
                                ![r].bpc = IF runs[r].joined + 1 = Len(runs[r].children)
                                           THEN "completed" ELSE "await_children"]
        /\ UNCHANGED <<execs, polls>>
        /\ UNCHANGED restOfClient

NextOverlap ==
    \/ RunIssuesChildren
    \/ RunChildStarted
    \/ RunChildRejected
    \/ RunChildCompleted
    \/ RunJoin

OverlapSpec == InitOverlap /\ [][NextOverlap]_vars

\* C36: two batch runs that execute at overlapping times address their
\* children by distinct workflow ids, and no child start of one run is
\* rejected because of a child of the other run.
C36_RunsUseDistinctChildIds ==
    /\ \A r1, r2 \in 1 .. Len(runs) :
          (r1 # r2 /\ runs[r1].bpc # "completed" /\ runs[r2].bpc # "completed")
             => \A i \in 1 .. Len(runs[r1].children), j \in 1 .. Len(runs[r2].children) :
                   runs[r1].children[i].workflow_id # runs[r2].children[j].workflow_id
    /\ \A r \in 1 .. Len(runs) : \A i \in 1 .. Len(runs[r].children) :
          runs[r].children[i].phase # "start_failed"

(***************************************************************************)
(* bin/starter.rs, bin/schedule.rs and bin/worker.rs of                    *)
(* schedule-payments-rust.  Strings are sequences of their parts, so that  *)
(* a formatted id and a fixed name can be compared.                        *)
(***************************************************************************)
\* values Uuid::new_v4() returns
Uuids == {"u1", "u2"}

\* WorkflowClientTrait::start_workflow, by the position of its parameters
\* (sdk_best_practices_tests.rs lines 94-101): the request the server gets
start_workflow(input_payloads, task_queue, workflow_id, workflow_type) ==
    [input |-> input_payloads, task_queue |-> task_queue,
     workflow_id |-> workflow_id, workflow_type |-> workflow_type]

\* starter.rs lines 38-55: the call, with its arguments in the order written
starter_main(uuid) ==
    LET workflow_id == <<"find-due-payments-", uuid>>
    IN start_workflow(<<>>, workflow_id, <<"find_due_payments_workflow">>, <<"payments">>)

\* schedule.rs lines 47-64: the call, with its arguments in the order written
schedule_main(uuid) ==
    LET workflow_id == <<"scheduled-payment-", uuid>>
    IN start_workflow(<<>>, workflow_id, <<"find_due_payments_workflow">>, <<"payments">>)

\* worker.rs lines 47-49 and 58: the task queue the worker polls
WorkerTaskQueue == <<"payments">>
\* worker.rs lines 61-72: the workflow types the worker registers
RegisteredWorkflows == {<<"find_due_payments_workflow">>, <<"make_payment">>}

\* what the server does with a start request: an execution whose first
\* workflow task waits on the request's task queue, unless an execution with
\* the request's workflow id is open
ServerStart(req) ==
    IF \E i \in 1 .. Len(execs) :
          /\ execs[i].request.workflow_id = req.workflow_id
          /\ execs[i].status \in {"queued", "picked_up"}
    THEN [request |-> req, status |-> "already_started"]
    ELSE [request |-> req, status |-> "queued"]

InitStart == InitOverlap

\* starter.rs main
StarterMain ==
    \E uuid \in Uuids :
        /\ Len(execs) < MaxStarts
        /\ execs' = Append(execs, ServerStart(starter_main(uuid)))
        /\ UNCHANGED <<runs, polls>>
        /\ UNCHANGED restOfClient

\* schedule.rs main
ScheduleMain ==
    \E uuid \in Uuids :
        /\ Len(execs) < MaxStarts
        /\ execs' = Append(execs, ServerStart(schedule_main(uuid)))
        /\ UNCHANGED <<runs, polls>>
        /\ UNCHANGED restOfClient

\* the executions whose workflow task waits on the worker's task queue
Pollable ==
    {i \in 1 .. Len(execs) :
        execs[i].status = "queued" /\ execs[i].request.task_queue = WorkerTaskQueue}

\* worker.rs line 79, worker.run(): one poll of the task queue; a task for a
\* registered type is run, a task for another type fails, and a poll that
\* finds no task returns empty
WorkerPoll ==
    /\ polls < MaxPolls
    /\ polls' = polls + 1
    /\ execs' = IF Pollable = {} THEN execs
                ELSE LET i == CHOOSE k \in Pollable : \A j \in Pollable : k <= j
                     IN [execs EXCEPT ![i].status =
                            IF execs[i].request.workflow_type \in RegisteredWorkflows
                            THEN "picked_up" ELSE "task_failed"]
    /\ UNCHANGED runs
    /\ UNCHANGED restOfClient

NextStart ==
    \/ StarterMain
    \/ ScheduleMain
    \/ WorkerPoll

StartSpec == InitStart /\ [][NextStart]_vars

\* C39: the starter and schedule programs start the batch with workflow type
\* find_due_payments_workflow on task queue payments, their own generated id
\* being the workflow id: the queue the worker polls and a type it registers,
\* so that the worker's poll after the start picks the batch up.
C39_StartsReachWorker ==
    [][/\ \A i \in 1 .. Len(execs') :
             /\ execs'[i].request.task_queue = WorkerTaskQueue
             /\ execs'[i].request.workflow_type = <<"find_due_payments_workflow">>
             /\ execs'[i].request.workflow_type \in RegisteredWorkflows
             /\ execs'[i].request.workflow_id[2] \in Uuids
       /\ (polls' # polls /\ \E i \in 1 .. Len(execs) : execs[i].status = "queued")
             => \E i \in 1 .. Len(execs) :
                   execs[i].status = "queued" /\ execs'[i].status = "picked_up"]_vars

=============================================================================
